---- MODULE Spec2Model ----
(***************************************************************************)
(* Model of django-1.0.2/db/backends/sqlite3/introspection.py:            *)
(* FlexibleFieldLookupDict (the type-name resolver) and                   *)
(* DatabaseIntrospection (table list, table description, indexes,         *)
(* relations) over a SQLite catalog.                                      *)
(*                                                                         *)
(* Strings whose characters the code inspects or orders (type strings,    *)
(* catalog names) are sequences of character codes; strings the code only *)
(* copies (column names, raw column types, field-type names) are TLA+     *)
(* strings.  A Python tuple row is a TLA+ tuple, so Python's field[i] is  *)
(* row[i+1] here.                                                          *)
(***************************************************************************)
EXTENDS Integers, Sequences, FiniteSets

VARIABLES db, pc, call, fault, result, queries

vars == <<db, pc, call, fault, result, queries>>

\* Python's None, where a row or a tuple holds it.
None == "None"

(***************************************************************************)
(* Bounds of the model.                                                    *)
(***************************************************************************)
\* Case variants of a type string: at most this many letters upper-cased
\* (the all-upper-case variant is always included).
MaxUpper == 2
\* Length of a leading or trailing whitespace run.
MaxWs == 2
\* Number of digits of the length parameter N.
MaxDigits == 2
\* Columns of the described table.
MaxCols == 2
\* Indexes on the described table.
MaxIdx == 2
\* Objects (tables, views) of a catalog.
MaxObjs == 3

(***************************************************************************)
(* Characters.                                                             *)
(***************************************************************************)
\* str.lower() on one ASCII character (line 29).
LowerChar(c) == IF c >= 65 /\ c <= 90 THEN c + 32 ELSE c

\* A faulty variant of Lower: the key is used as given.
LowerMissing(s) == s

\* key.lower() (line 29).
Lower(s) == [i \in 1..Len(s) |-> LowerChar(s[i])]

\* \s of the regular expression on ASCII, for a str pattern: \t \n \v \f
\* \r, the separators 0x1c..0x1f, and the space (line 34).
IsSpace(c) == (c >= 9 /\ c <= 13) \/ (c >= 28 /\ c <= 32)

\* \d of the regular expression on ASCII (line 34).
IsDigit(c) == c >= 48 /\ c <= 57

(***************************************************************************)
(* FlexibleFieldLookupDict                                                 *)
(***************************************************************************)
\* The entries of the fixed table (lines 10-26), as <<key, field type>>.
BaseEntries ==
    {  <<<<98,111,111,108>>, "BooleanField">>,                    \* 'bool'
       <<<<98,111,111,108,101,97,110>>, "BooleanField">>,         \* 'boolean'
       <<<<115,109,97,108,108,105,110,116>>, "SmallIntegerField">>, \* 'smallint'
       <<<<115,109,97,108,108,105,110,116,32,117,110,115,105,103,110,101,100>>,
         "PositiveSmallIntegerField">>,                           \* 'smallint unsigned'
       <<<<115,109,97,108,108,105,110,116,101,103,101,114>>,
         "SmallIntegerField">>,                                   \* 'smallinteger'
       <<<<105,110,116>>, "IntegerField">>,                       \* 'int'
       <<<<105,110,116,101,103,101,114>>, "IntegerField">>,       \* 'integer'
       <<<<105,110,116,101,103,101,114,32,117,110,115,105,103,110,101,100>>,
         "PositiveIntegerField">>,                                \* 'integer unsigned'
       <<<<100,101,99,105,109,97,108>>, "DecimalField">>,         \* 'decimal'
       <<<<114,101,97,108>>, "FloatField">>,                      \* 'real'
       <<<<116,101,120,116>>, "TextField">>,                      \* 'text'
       <<<<99,104,97,114>>, "CharField">>,                        \* 'char'
       <<<<100,97,116,101>>, "DateField">>,                       \* 'date'
       <<<<100,97,116,101,116,105,109,101>>, "DateTimeField">>,   \* 'datetime'
       <<<<116,105,109,101>>, "TimeField">> }                     \* 'time'

\* The dictionary base_data_types_reverse (lines 10-26).
base_data_types_reverse ==
    [k \in {e[1] : e \in BaseEntries} |->
        (CHOOSE e \in BaseEntries : e[1] = k)[2]]

\* The literals of the pattern (line 34).
LitVar == <<118,97,114>>
LitChar == <<99,104,97,114>>
LParen == 40
RParen == 41

\* Whether s holds the literal lit from position i on.
HasLit(s, i, lit) ==
    /\ i + Len(lit) - 1 <= Len(s)
    /\ \A j \in 1..Len(lit) : s[i + j - 1] = lit[j]

RECURSIVE SkipSpaces(_, _)
\* \s* from position i: the position after the run of whitespace (greedy;
\* what follows each \s* in the pattern is never whitespace, so giving
\* characters back never helps).
SkipSpaces(s, i) ==
    IF i <= Len(s) /\ IsSpace(s[i]) THEN SkipSpaces(s, i + 1) ELSE i

RECURSIVE SkipDigits(_, _)
\* \d* from position i: the position after the run of digits.
SkipDigits(s, i) ==
    IF i <= Len(s) /\ IsDigit(s[i]) THEN SkipDigits(s, i + 1) ELSE i

NoMatch == [matched |-> FALSE]

\* re.search(r'^\s*(?:var)?char\s*\(\s*(\d+)\s*\)\s*$', key) (line 34): a
\* scan from the start of the string; group1 is the text of (\d+).
re_search(s) ==
    LET p0 == SkipSpaces(s, 1)
        p1 == IF HasLit(s, p0, LitVar) THEN p0 + Len(LitVar) ELSE p0
        p2 == p1 + Len(LitChar)
        p3 == SkipSpaces(s, p2)
        p4 == SkipSpaces(s, p3 + 1)
        p5 == SkipDigits(s, p4)
        p6 == SkipSpaces(s, p5)
        p7 == SkipSpaces(s, p6 + 1)
    IN  IF /\ HasLit(s, p1, LitChar)
           /\ p3 <= Len(s) /\ s[p3] = LParen
           /\ p5 > p4
           /\ p6 <= Len(s) /\ s[p6] = RParen
           /\ p7 = Len(s) + 1
        THEN [matched |-> TRUE, group1 |-> SubSeq(s, p4, p5 - 1)]
        ELSE NoMatch

RECURSIVE IntAcc(_, _, _)
\* int() of a digit string, digit by digit from the left.
IntAcc(ds, i, acc) ==
    IF i > Len(ds) THEN acc ELSE IntAcc(ds, i + 1, acc * 10 + (ds[i] - 48))

\* A faulty variant of int: only the first digit of the parameter is read.
int_first_digit(ds) == ds[1] - 48

\* int(m.group(1)) (line 36).
int(ds) == IntAcc(ds, 1, 0)

\* The outcome of a call: a returned value with its Python type, or a raised
\* exception (and then no value at all).
Return(t, v) == [kind |-> "return", type |-> t, value |-> v]
Raise(e) == [kind |-> "raise", exc |-> e]

\* A faulty variant of __getitem__: an unknown type falls back to a default field type.
getitem_default(key) ==
    LET k == Lower(key)
        m == re_search(k)
    IN  IF k \in DOMAIN base_data_types_reverse
        THEN Return("str", base_data_types_reverse[k])
        ELSE IF m.matched
             THEN Return("tuple", <<"CharField", [max_length |-> int(m.group1)]>>)
             ELSE Return("str", "TextField")

\* FlexibleFieldLookupDict.__getitem__ (lines 28-37).
__getitem__(key) ==
    LET k == Lower(key)
        m == re_search(k)
    IN  IF k \in DOMAIN base_data_types_reverse
        THEN Return("str", base_data_types_reverse[k])
        ELSE IF m.matched
             THEN Return("tuple", <<"CharField", [max_length |-> int(m.group1)]>>)
             ELSE Raise("KeyError")

(***************************************************************************)
(* The database session: the catalog and the cursor.                      *)
(*                                                                         *)
(* db.master is sqlite_master (type and name of every object, in rowid    *)
(* order); db.table_info, db.index_list and db.index_info are what the    *)
(* three PRAGMAs answer for a name, as rows.  A PRAGMA on a name the      *)
(* database does not hold answers no rows.  connection.ops.quote_name     *)
(* quotes the name and the engine unquotes it: a query holds the name.    *)
(***************************************************************************)
SelectTables == "SELECT name FROM sqlite_master WHERE type='table' AND NOT name='sqlite_sequence' ORDER BY name"
PragmaTableInfo == "PRAGMA table_info(%s)"
PragmaIndexList == "PRAGMA index_list(%s)"
PragmaIndexInfo == "PRAGMA index_info(%s)"

\* The name of the autoincrement bookkeeping table (line 48).
sqlite_sequence == <<115,113,108,105,116,101,95,115,101,113,117,101,110,99,101>>

Query(sql, arg) == [sql |-> sql, arg |-> arg]

\* ORDER BY name, BINARY collation: a before b, byte by byte, a proper
\* prefix first (line 49).
NameBefore(a, b) ==
    \E i \in 1..(Len(a) + 1) :
        /\ \A j \in 1..(i - 1) : j <= Len(b) /\ a[j] = b[j]
        /\ \/ i = Len(a) + 1 /\ Len(b) >= i
           \/ i <= Len(a) /\ i <= Len(b) /\ a[i] < b[i]

RECURSIVE InsertByName(_, _)
\* x put into the ordered sequence s, after the names not after it.
InsertByName(x, s) ==
    IF s = <<>> THEN <<x>>
    ELSE IF NameBefore(x, Head(s)) THEN <<x>> \o s
    ELSE <<Head(s)>> \o InsertByName(x, Tail(s))

RECURSIVE OrderByName(_)
\* ORDER BY name (line 49).
OrderByName(s) ==
    IF s = <<>> THEN <<>> ELSE InsertByName(Head(s), OrderByName(Tail(s)))

\* A faulty variant of WhereTable: the bookkeeping table is not excluded.
WhereTableOnly(row) == row.type = "table"

\* WHERE type='table' AND NOT name='sqlite_sequence' (line 48), on one row.
WhereTable(row) == row.type = "table" /\ ~(row.name = sqlite_sequence)

\* The rows of the SELECT of get_table_list (lines 46-49), each <<name>>.
SelectTableRows(d) ==
    LET kept == SelectSeq(d.master, LAMBDA row : WhereTable(row))
        names == OrderByName([i \in 1..Len(kept) |-> kept[i].name])
    IN  [i \in 1..Len(names) |-> <<names[i]>>]

\* What a PRAGMA answers for a name.
PragmaRows(answers, name) ==
    IF name \in DOMAIN answers THEN answers[name] ELSE <<>>

\* cursor.fetchall() after a successful cursor.execute(q).
fetchall(d, q) ==
    CASE q.sql = SelectTables -> SelectTableRows(d)
      [] q.sql = PragmaTableInfo -> PragmaRows(d.table_info, q.arg)
      [] q.sql = PragmaIndexList -> PragmaRows(d.index_list, q.arg)
      [] q.sql = PragmaIndexInfo -> PragmaRows(d.index_info, q.arg)

\* No query of the call fails.
NoFault == [at |-> 0, exc |-> None]

\* Whether the n-th cursor.execute of the call fails (with f.exc).
Fails(f, n) == f.at = n

(***************************************************************************)
(* DatabaseIntrospection.  A call's outcome is its result and the queries *)
(* it executed on the cursor, in order.                                    *)
(***************************************************************************)
Outcome(r, qs) == [result |-> r, queries |-> qs]

\* get_table_list (lines 42-50).
get_table_list(d, f) ==
    LET q == Query(SelectTables, <<>>)
        rows == fetchall(d, q)
    IN  IF Fails(f, 1)
        THEN Outcome(Raise(f.exc), <<q>>)
        ELSE Outcome(Return("list", [i \in 1..Len(rows) |-> rows[i][1]]), <<q>>)

\* A faulty variant of info_dict: null_ok copies notnull instead of negating it.
info_dict_not_negated(field) ==
    [name |-> field[2], type |-> field[3], null_ok |-> ~(field[4] = 0),
     pk |-> field[6]]

\* One dictionary of _table_info (lines 88-92), from one row
\* <<cid, name, type, notnull, dflt_value, pk>>.
info_dict(field) ==
    [name |-> field[2], type |-> field[3], null_ok |-> (field[4] = 0),
     pk |-> field[6]]

\* _table_info (lines 85-92), as the n-th query of the call.
_table_info(d, name, f, n) ==
    LET q == Query(PragmaTableInfo, name)
        rows == fetchall(d, q)
    IN  IF Fails(f, n)
        THEN [ok |-> FALSE, exc |-> f.exc, query |-> q]
        ELSE [ok |-> TRUE, query |-> q,
              infos |-> [i \in 1..Len(rows) |-> info_dict(rows[i])]]

\* get_table_description (lines 52-55).
get_table_description(d, table_name, f) ==
    LET ti == _table_info(d, table_name, f, 1)
    IN  IF ~ti.ok
        THEN Outcome(Raise(ti.exc), <<ti.query>>)
        ELSE Outcome(Return("list",
                 [i \in 1..Len(ti.infos) |->
                     <<ti.infos[i].name, ti.infos[i].type, None, None, None,
                       None, ti.infos[i].null_ok>>]),
                 <<ti.query>>)

\* A faulty variant of get_relations: the table is looked up, and an empty mapping
\* is returned.
get_relations_empty(d, table_name) ==
    Outcome(Return("dict", <<>>), <<Query(PragmaTableInfo, table_name)>>)

\* get_relations (lines 57-58).
get_relations(d, table_name) == Outcome(Raise("NotImplementedError"), <<>>)

\* A faulty variant of is_primary_key: only the first column of the key counts.
is_primary_key_first(pk) == pk = 1

\* info['pk'] != 0 (line 69).
is_primary_key(pk) == pk # 0

RECURSIVE initial_indexes(_, _, _)
\* The loop of lines 68-70 from its i-th dictionary on: one entry per
\* column, a later column of the same name replacing an earlier one.
initial_indexes(infos, i, indexes) ==
    IF i > Len(infos) THEN indexes
    ELSE LET name == infos[i].name
             entry == [primary_key |-> is_primary_key(infos[i].pk),
                       unique |-> FALSE]
         IN  initial_indexes(infos, i + 1,
                 [c \in (DOMAIN indexes) \cup {name} |->
                     IF c = name THEN entry ELSE indexes[c]])

\* A faulty variant of skip_index: an index across several fields is not skipped.
skip_index_never(info) == Len(info) = 0

\* len(info) != 1 (line 79).
skip_index(info) == Len(info) # 1

\* A faulty variant of not_unique: no index is taken for a non-unique one.
not_unique_never(unique) == FALSE

\* not unique (line 74), on the unique column of an index_list row.
not_unique(unique) == unique = 0

RECURSIVE index_loop_swallow(_, _, _, _, _, _)
\* A faulty variant of index_loop: a failing index_info query is swallowed and the
\* loop goes on with the next index.
index_loop_swallow(d, f, rows, i, indexes, qs) ==
    IF i > Len(rows) THEN Outcome(Return("dict", indexes), qs)
    ELSE LET unique == rows[i][3]
             q == Query(PragmaIndexInfo, rows[i][2])
             info == fetchall(d, q)
             name == info[1][3]
         IN  IF not_unique(unique)
             THEN index_loop_swallow(d, f, rows, i + 1, indexes, qs)
             ELSE IF Fails(f, Len(qs) + 1)
             THEN index_loop_swallow(d, f, rows, i + 1, indexes, Append(qs, q))
             ELSE IF skip_index(info)
             THEN index_loop_swallow(d, f, rows, i + 1, indexes, Append(qs, q))
             ELSE IF name \notin DOMAIN indexes
             THEN Outcome(Raise("KeyError"), Append(qs, q))
             ELSE index_loop_swallow(d, f, rows, i + 1,
                      [indexes EXCEPT ![name].unique = TRUE], Append(qs, q))

RECURSIVE index_loop(_, _, _, _, _, _)
\* The loop of lines 73-82 from the i-th row <<seq, name, unique>> of the
\* index list on; qs are the queries executed so far.
index_loop(d, f, rows, i, indexes, qs) ==
    IF i > Len(rows) THEN Outcome(Return("dict", indexes), qs)
    ELSE LET unique == rows[i][3]
             q == Query(PragmaIndexInfo, rows[i][2])
             info == fetchall(d, q)
             name == info[1][3]
         IN  IF not_unique(unique)
             THEN index_loop(d, f, rows, i + 1, indexes, qs)
             ELSE IF Fails(f, Len(qs) + 1)
             THEN Outcome(Raise(f.exc), Append(qs, q))
             ELSE IF skip_index(info)
             THEN index_loop(d, f, rows, i + 1, indexes, Append(qs, q))
             ELSE IF name \notin DOMAIN indexes
             THEN Outcome(Raise("KeyError"), Append(qs, q))
             ELSE index_loop(d, f, rows, i + 1,
                      [indexes EXCEPT ![name].unique = TRUE], Append(qs, q))

\* get_indexes (lines 60-83).
get_indexes(d, table_name, f) ==
    LET ti == _table_info(d, table_name, f, 1)
        q2 == Query(PragmaIndexList, table_name)
    IN  IF ~ti.ok
        THEN Outcome(Raise(ti.exc), <<ti.query>>)
        ELSE IF Fails(f, 2)
        THEN Outcome(Raise(f.exc), <<ti.query, q2>>)
        ELSE index_loop(d, f, fetchall(d, q2), 1,
                        initial_indexes(ti.infos, 1, <<>>), <<ti.query, q2>>)

(***************************************************************************)
(* The databases and the inputs the model runs the code on.               *)
(***************************************************************************)
\* The sequences over S of length at most n.
SeqsUpTo(S, n) == UNION {[1..k -> S] : k \in 0..n}

\* Catalog names: 't', 'zz' (no such table), 'b', 'B', 'ab', 'v', 'a_idx'.
NameT == <<116>>
NameMissing == <<122,122>>
NameLowerB == <<98>>
NameUpperB == <<66>>
NameAB == <<97,98>>
NameV == <<118>>
NameAIdx == <<97,95,105,100,120>>

\* The name of the i-th index of the described table: 'i1', 'i2', ...
IdxName(i) == <<105, 48 + i>>

\* The columns a described table is made of:
\* [name, type, notnull, inpk (part of the primary key)].
ColPool ==
    { [name |-> "a", type |-> "integer", notnull |-> 1, inpk |-> TRUE],
      [name |-> "a", type |-> "text", notnull |-> 0, inpk |-> FALSE],
      [name |-> "b", type |-> "varchar(30)", notnull |-> 1, inpk |-> FALSE],
      [name |-> "c", type |-> "BLOB", notnull |-> 0, inpk |-> TRUE] }

\* The column lists of a table: 1..MaxCols columns of distinct names.
ColLists ==
    {cs \in SeqsUpTo(ColPool, MaxCols) :
        /\ Len(cs) >= 1
        /\ \A i, j \in 1..Len(cs) : i # j => cs[i].name # cs[j].name}

\* The rank of column i among the primary-key columns (PRAGMA table_info's
\* pk), 0 for a column outside the key.
PkOf(cs, i) ==
    IF cs[i].inpk THEN Cardinality({j \in 1..i : cs[j].inpk}) ELSE 0

\* PRAGMA table_info rows: <<cid, name, type, notnull, dflt_value, pk>>.
TableInfoRows(cs) ==
    [i \in 1..Len(cs) |->
        <<i - 1, cs[i].name, cs[i].type, cs[i].notnull, None, PkOf(cs, i)>>]

\* The indexes a table of columns cs may have: [unique, cov], cov the
\* covered positions in index order; position 0 is an expression.
\* Non-unique: the last column, the first two columns.  Unique: each
\* single column, each leading run of two or more columns, one expression.
IndexSpecs(cs) ==
    LET n == Len(cs)
    IN  {[unique |-> 0, cov |-> <<n>>]}
        \cup {[unique |-> 0, cov |-> <<1, 2>>] : k \in {k \in {2} : k <= n}}
        \cup {[unique |-> 1, cov |-> <<i>>] : i \in 1..n}
        \cup {[unique |-> 1, cov |-> [j \in 1..k |-> j]] : k \in 2..n}
        \cup {[unique |-> 1, cov |-> <<0>>]}

\* PRAGMA index_list rows: <<seq, name, unique>>.
IndexListRows(ixs) ==
    [i \in 1..Len(ixs) |-> <<i - 1, IdxName(i), ixs[i].unique>>]

\* PRAGMA index_info rows of one index: <<seqno, cid, name>>; an expression
\* has cid -2 and no name.
IndexInfoRows(cs, ix) ==
    [j \in 1..Len(ix.cov) |->
        IF ix.cov[j] = 0 THEN <<j - 1, -2, None>>
        ELSE <<j - 1, ix.cov[j] - 1, cs[ix.cov[j]].name>>]

\* The database holding the one table 't' of columns cs and indexes ixs.
SchemaDb(cs, ixs) ==
    [master |-> <<[type |-> "table", name |-> NameT]>>
                \o [i \in 1..Len(ixs) |-> [type |-> "index", name |-> IdxName(i)]],
     table_info |-> [n \in {NameT} |-> TableInfoRows(cs)],
     index_list |-> [n \in {NameT} |-> IndexListRows(ixs)],
     index_info |-> [n \in {IdxName(i) : i \in 1..Len(ixs)} |->
                        IndexInfoRows(cs, ixs[CHOOSE i \in 1..Len(ixs) : IdxName(i) = n])]]

SchemaDbs ==
    UNION {{SchemaDb(cs, ixs) : ixs \in SeqsUpTo(IndexSpecs(cs), MaxIdx)} :
              cs \in ColLists}

\* The objects a catalog is made of: tables, a view, and the table 't' with
\* its unique index 'a_idx' on its only column.
ObjPool ==
    { [type |-> "table", name |-> NameLowerB, index |-> <<>>],
      [type |-> "table", name |-> NameUpperB, index |-> <<>>],
      [type |-> "table", name |-> NameAB, index |-> <<>>],
      [type |-> "table", name |-> sqlite_sequence, index |-> <<>>],
      [type |-> "view", name |-> NameV, index |-> <<>>],
      [type |-> "table", name |-> NameT, index |-> <<NameAIdx>>] }

\* The one column of every object of a catalog.
DefaultCols == <<[name |-> "id", type |-> "integer", notnull |-> 1, inpk |-> TRUE]>>

RECURSIVE MasterRows(_)
\* sqlite_master of the objects os: an object's row, then its index's.
MasterRows(os) ==
    IF os = <<>> THEN <<>>
    ELSE <<[type |-> Head(os).type, name |-> Head(os).name]>>
         \o [i \in 1..Len(Head(os).index) |->
                [type |-> "index", name |-> Head(os).index[i]]]
         \o MasterRows(Tail(os))

\* The database holding the objects os, in creation order.
CatalogDb(os) ==
    LET objs == {os[i] : i \in 1..Len(os)}
        indexed == {o \in objs : o.index # <<>>}
    IN  [master |-> MasterRows(os),
         table_info |-> [n \in {o.name : o \in objs} |-> TableInfoRows(DefaultCols)],
         index_list |-> [n \in {o.name : o \in indexed} |->
                            <<<<0, (CHOOSE o \in indexed : o.name = n).index[1], 1>>>>],
         index_info |-> [n \in {o.index[1] : o \in indexed} |-> <<<<0, 0, "id">>>>]]

CatalogDbs ==
    {CatalogDb(os) : os \in {s \in SeqsUpTo(ObjPool, MaxObjs) :
                                \A i, j \in 1..Len(s) : i # j => s[i] # s[j]}}

\* The table names the operations are called with.
TableArgs == {NameT, NameMissing}

\* The failures a query may end in.
Errors == {"OperationalError", "DatabaseError"}

\* The most queries one call executes.
MaxQueries == MaxIdx + 2

Faults == {NoFault} \cup [at : 1..MaxQueries, exc : Errors]

(***************************************************************************)
(* The state machine: one call of one operation on a database.            *)
(***************************************************************************)
NotCalled == [op |-> "none"]
NoResult == [kind |-> "none"]

Init ==
    /\ db \in SchemaDbs \cup CatalogDbs
    /\ pc = "idle"
    /\ call = NotCalled
    /\ fault = NoFault
    /\ result = NoResult
    /\ queries = <<>>

\* The call ends with outcome o.  A fault is one that happened: the call
\* reached the query it names.
Finish(c, f, o) ==
    /\ f.at <= Len(o.queries)
    /\ pc' = "done"
    /\ call' = c
    /\ fault' = f
    /\ result' = o.result
    /\ queries' = o.queries
    /\ UNCHANGED db

GetTableList ==
    /\ pc = "idle"
    /\ \E f \in Faults :
          Finish([op |-> "get_table_list"], f, get_table_list(db, f))

GetTableDescription ==
    /\ pc = "idle"
    /\ \E t \in TableArgs, f \in Faults :
          Finish([op |-> "get_table_description", table_name |-> t], f,
                 get_table_description(db, t, f))

GetRelations ==
    /\ pc = "idle"
    /\ \E t \in TableArgs :
          Finish([op |-> "get_relations", table_name |-> t], NoFault,
                 get_relations(db, t))

GetIndexes ==
    /\ pc = "idle"
    /\ \E t \in TableArgs, f \in Faults :
          Finish([op |-> "get_indexes", table_name |-> t], f,
                 get_indexes(db, t, f))

Next == GetTableList \/ GetTableDescription \/ GetRelations \/ GetIndexes

Spec == Init /\ [][Next]_vars

(***************************************************************************)
(* The type strings the resolver is run on, and its state machine.        *)
(***************************************************************************)
UpperChar(c) == IF c >= 97 /\ c <= 122 THEN c - 32 ELSE c

\* s with the positions P upper-cased.
UpperAt(s, P) == [i \in 1..Len(s) |-> IF i \in P THEN UpperChar(s[i]) ELSE s[i]]

RECURSIVE PosSets(_, _)
\* The sets of at most n positions of 1..len.
PosSets(len, n) ==
    IF n = 0 THEN {{}}
    ELSE LET smaller == PosSets(len, n - 1)
         IN  smaller \cup {P \cup {i} : P \in smaller, i \in 1..len}

\* The case variants of s: at most MaxUpper letters upper-cased, or all.
CaseVariants(s) ==
    {UpperAt(s, P) : P \in PosSets(Len(s), MaxUpper) \cup {1..Len(s)}}

BaseKeys == {e[1] : e \in BaseEntries}

TableKeyInputs == UNION {CaseVariants(k) : k \in BaseKeys}

\* Whitespace runs around the type: spaces and newlines.
OuterSpaces == SeqsUpTo({32, 10}, MaxWs)
\* Whitespace between the parts of the type: none, or a tab.
InnerSpaces == {<<>>, <<9>>}
\* The digits of the parameter: 0 and 7.
DigitStrings == SeqsUpTo({48, 55}, MaxDigits) \ {<<>>}
\* 'char' and 'varchar', in lower case, in upper case and capitalised.
CharWords ==
    UNION {{w, UpperAt(w, {1}), UpperAt(w, 1..Len(w))} : w \in {LitChar, LitVar \o LitChar}}

\* char(N) and varchar(N) in whitespace.
CharInputs ==
    {a \o w \o i \o <<LParen>> \o i \o n \o i \o <<RParen>> \o b :
        a \in OuterSpaces, b \in OuterSpaces, i \in InnerSpaces,
        w \in CharWords, n \in DigitStrings}

\* s without its i-th character, with 'x' for it, with a space before it.
Without(s, i) == SubSeq(s, 1, i - 1) \o SubSeq(s, i + 1, Len(s))
Replaced(s, i) == [s EXCEPT ![i] = 120]
Spaced(s, i) == SubSeq(s, 1, i - 1) \o <<32>> \o SubSeq(s, i, Len(s))

\* 'varchar(30)', ' char ( 7 ) ', 'blob', 'double', 'varvarchar(1)'.
OtherTypes ==
    { <<118,97,114,99,104,97,114,40,51,48,41>>,
      <<32,99,104,97,114,32,40,32,55,32,41,32>>,
      <<98,108,111,98>>,
      <<100,111,117,98,108,101>>,
      <<118,97,114,118,97,114,99,104,97,114,40,49,41>> }

\* Type strings one edit away from a known one, and the empty string.
NearInputs ==
    LET bases == BaseKeys \cup OtherTypes
        near == bases \cup {<<>>}
                \cup UNION {{Without(s, i) : i \in 1..Len(s)} : s \in bases}
                \cup UNION {{Replaced(s, i) : i \in 1..Len(s)} : s \in bases}
                \cup UNION {{Spaced(s, i) : i \in 1..(Len(s) + 1)} : s \in bases}
    IN  near \cup {UpperAt(s, 1..Len(s)) : s \in near}

KeyInputs == TableKeyInputs \cup CharInputs \cup NearInputs

\* The resolver needs no database: the session holds an empty one.
InitLookup ==
    /\ db = CatalogDb(<<>>)
    /\ pc = "idle"
    /\ call = NotCalled
    /\ fault = NoFault
    /\ result = NoResult
    /\ queries = <<>>

GetItem ==
    /\ pc = "idle"
    /\ \E key \in KeyInputs :
          Finish([op |-> "__getitem__", key |-> key], NoFault,
                 Outcome(__getitem__(key), <<>>))

NextLookup == GetItem

SpecLookup == InitLookup /\ [][NextLookup]_vars

(***************************************************************************)
(* Properties of the resolver, checked under SpecLookup.                  *)
(***************************************************************************)
\* A call of the resolver has ended.
Looked == pc = "done" /\ call.op = "__getitem__"

\* s is the lower-case string k with some of its letters upper-cased.
IsCaseVariantOf(s, k) ==
    /\ Len(s) = Len(k)
    /\ \A i \in 1..Len(k) : s[i] = k[i] \/ s[i] = UpperChar(k[i])

\* 'INTEGER UNSIGNED'
UpperIntegerUnsigned == <<73,78,84,69,71,69,82,32,85,78,83,73,71,78,69,68>>

\* C1: for every key k of the fixed table and every upper/lower-case
\* variant of k, the resolver returns exactly the plain field-type name the
\* table maps k to (a bare name, not a name with options).
C1_FixedTypeAnyCase ==
    Looked =>
        \A e \in BaseEntries :
            IsCaseVariantOf(call.key, e[1]) =>
                /\ result.kind = "return"
                /\ result.type = "str"
                /\ result.value = e[2]

\* C1's case: 'INTEGER UNSIGNED' resolved to PositiveIntegerField.
C1_Witness ==
    /\ Looked
    /\ call.key = UpperIntegerUnsigned
    /\ result.kind = "return"
    /\ result.type = "str"
    /\ result.value = "PositiveIntegerField"

\* The whitespace characters: tab, newline, vertical tab, form feed,
\* carriage return, space.
Whitespace == {9, 10, 11, 12, 13, 32}

\* s is a whitespace characters, then the word w in any letter case, then
\* "(", one or more digits, ")", then b whitespace characters.
IsCharForm(s, a, w, b) ==
    LET open == a + Len(w) + 1
        close == Len(s) - b
    IN  /\ close >= open + 2
        /\ \A i \in 1..a : s[i] \in Whitespace
        /\ \A i \in (close + 1)..Len(s) : s[i] \in Whitespace
        /\ IsCaseVariantOf(SubSeq(s, a + 1, a + Len(w)), w)
        /\ s[open] = 40
        /\ s[close] = 41
        /\ \A i \in (open + 1)..(close - 1) : s[i] \in 48..57

\* The digits N of such a string.
CharFormDigits(s, a, w, b) == SubSeq(s, a + Len(w) + 2, Len(s) - b - 1)

RECURSIVE DecimalValue(_)
\* The number a digit string denotes: ten times the number of all but the
\* last digit, plus the last digit.
DecimalValue(ds) ==
    IF ds = <<>> THEN 0
    ELSE 10 * DecimalValue(SubSeq(ds, 1, Len(ds) - 1)) + (ds[Len(ds)] - 48)

\* C2: for any type string "char(N)" or "varchar(N)" in any letter case, N a
\* non-empty digit string (0 included), with any whitespace around it, the
\* resolver returns the pair ("CharField", {"max_length": N}) with
\* max_length the integer value of N.
C2_CharLength ==
    Looked =>
        \A a \in 0..Len(call.key), b \in 0..Len(call.key),
           w \in {LitChar, LitVar \o LitChar} :
            IsCharForm(call.key, a, w, b) =>
                /\ result.kind = "return"
                /\ result.type = "tuple"
                /\ result.value =
                     <<"CharField",
                       [max_length |-> DecimalValue(CharFormDigits(call.key, a, w, b))]>>

\* C2's case: VARCHAR(70) in upper case with whitespace on both sides
\* resolved to a CharField of max_length 70.
C2_Witness ==
    /\ Looked
    /\ \E a \in 1..Len(call.key), b \in 1..Len(call.key) :
          /\ IsCharForm(call.key, a, LitVar \o LitChar, b)
          /\ SubSeq(call.key, a + 1, a + 3) = <<86, 65, 82>>
    /\ result.kind = "return"
    /\ result.type = "tuple"
    /\ result.value = <<"CharField", [max_length |-> 70]>>

\* s in lower case.
Lowered(s) == [i \in 1..Len(s) |-> IF s[i] \in 65..90 THEN s[i] + 32 ELSE s[i]]

\* s matches the parameterized pattern: whitespace, an optional "var",
\* "char", whitespace, "(" at p3, whitespace, digits from p4 to p5,
\* whitespace, ")" at p6, whitespace, each whitespace run possibly empty.
MatchesCharPattern(s) ==
    \E p0 \in 0..Len(s), v \in {0, Len(LitVar)} :
        /\ \A i \in 1..p0 : IsSpace(s[i])
        /\ (v > 0 => HasLit(s, p0 + 1, LitVar))
        /\ HasLit(s, p0 + v + 1, LitChar)
        /\ \E p3 \in (p0 + v + Len(LitChar) + 1)..Len(s) :
              /\ \A i \in (p0 + v + Len(LitChar) + 1)..(p3 - 1) : IsSpace(s[i])
              /\ s[p3] = 40
              /\ \E p4 \in (p3 + 1)..Len(s) :
                    /\ \A i \in (p3 + 1)..(p4 - 1) : IsSpace(s[i])
                    /\ \E p5 \in p4..Len(s) :
                          /\ \A i \in p4..p5 : IsDigit(s[i])
                          /\ \E p6 \in (p5 + 1)..Len(s) :
                                /\ \A i \in (p5 + 1)..(p6 - 1) : IsSpace(s[i])
                                /\ s[p6] = 41
                                /\ \A i \in (p6 + 1)..Len(s) : IsSpace(s[i])

\* C3: for every type string whose lower-cased form is neither a key of the
\* fixed table nor a match of the parameterized pattern, the resolver
\* raises KeyError and returns no value, never a default field type.
C3_UnknownTypeFails ==
    (/\ Looked
     /\ Lowered(call.key) \notin BaseKeys
     /\ ~MatchesCharPattern(Lowered(call.key)))
    => (result.kind = "raise" /\ result.exc = "KeyError")

\* C3's case: 'blob' looked up, and KeyError raised.
C3_Witness ==
    /\ Looked
    /\ call.key = <<98,108,111,98>>
    /\ result.kind = "raise"
    /\ result.exc = "KeyError"

(***************************************************************************)
(* Properties of the introspector, checked under Spec.  The catalog facts *)
(* are read off the database, not off the operations.                     *)
(***************************************************************************)
\* A call of the operation op has ended, no query of it having failed.
Returned(op) == pc = "done" /\ call.op = op /\ fault.at = 0

\* The column rows, the column names and the indexes of table t.
ColumnRows(t) == IF t \in DOMAIN db.table_info THEN db.table_info[t] ELSE <<>>
ColumnNames(t) == {ColumnRows(t)[i][2] : i \in 1..Len(ColumnRows(t))}
IndexRows(t) == IF t \in DOMAIN db.index_list THEN db.index_list[t] ELSE <<>>
Indexes(t) == {IndexRows(t)[i] : i \in 1..Len(IndexRows(t))}
\* The columns index row ix covers, in index order (None for an expression).
Covered(ix) == [j \in 1..Len(db.index_info[ix[2]]) |-> db.index_info[ix[2]][j][3]]
IsUniqueIndex(ix) == ix[3] # 0
\* The pk value of column c of table t.
PkValue(t, c) ==
    LET i == CHOOSE i \in 1..Len(ColumnRows(t)) : ColumnRows(t)[i][2] = c
    IN  ColumnRows(t)[i][6]

\* The call returned a mapping with an entry for every column of t.
ReturnedMapping(t) ==
    /\ result.kind = "return"
    /\ result.type = "dict"
    /\ DOMAIN result.value = ColumnNames(t)

\* C4: for a table that has exactly one single-column unique index (on
\* column c) and no multi-column indexes, get_indexes returns a mapping in
\* which c has unique = true and every other column has unique = false.
C4_OneUniqueIndex ==
    Returned("get_indexes") =>
        \A c \in ColumnNames(call.table_name) :
            (/\ \E ix \in Indexes(call.table_name) :
                    IsUniqueIndex(ix) /\ Covered(ix) = <<c>>
             /\ Cardinality({ix \in Indexes(call.table_name) :
                                IsUniqueIndex(ix) /\ Len(Covered(ix)) = 1}) = 1
             /\ \A ix \in Indexes(call.table_name) : Len(Covered(ix)) <= 1)
            => /\ ReturnedMapping(call.table_name)
               /\ result.value[c].unique
               /\ \A o \in ColumnNames(call.table_name) \ {c} :
                      ~result.value[o].unique

\* C4's case: a two-column table whose only unique index is on its second
\* column, with a non-unique index besides; the second column alone is
\* reported unique.
C4_Witness ==
    /\ Returned("get_indexes")
    /\ Len(ColumnRows(call.table_name)) = 2
    /\ Len(IndexRows(call.table_name)) = 2
    /\ \E ix \in Indexes(call.table_name) :
          IsUniqueIndex(ix) /\ Covered(ix) = <<ColumnRows(call.table_name)[2][2]>>
    /\ \E ix \in Indexes(call.table_name) :
          ~IsUniqueIndex(ix) /\ Len(Covered(ix)) = 1
    /\ ReturnedMapping(call.table_name)
    /\ result.value[ColumnRows(call.table_name)[2][2]].unique
    /\ ~result.value[ColumnRows(call.table_name)[1][2]].unique

\* C5: for a table whose unique indexes are all composite (two or more
\* columns), the one-composite-index table of the claim included,
\* get_indexes returns unique = false for every column.
C5_CompositeUniqueSkipped ==
    (/\ Returned("get_indexes")
     /\ \E ix \in Indexes(call.table_name) : IsUniqueIndex(ix)
     /\ \A ix \in Indexes(call.table_name) :
            IsUniqueIndex(ix) => Len(Covered(ix)) >= 2)
    => /\ ReturnedMapping(call.table_name)
       /\ \A c \in ColumnNames(call.table_name) : ~result.value[c].unique

\* C5's case: a table with one unique index, over two columns, and every
\* column reported not unique.
C5_Witness ==
    /\ Returned("get_indexes")
    /\ Cardinality({ix \in Indexes(call.table_name) : IsUniqueIndex(ix)}) = 1
    /\ \E ix \in Indexes(call.table_name) :
          IsUniqueIndex(ix) /\ Len(Covered(ix)) = 2
    /\ ReturnedMapping(call.table_name)
    /\ Cardinality(ColumnNames(call.table_name)) = 2
    /\ \A c \in ColumnNames(call.table_name) : ~result.value[c].unique

\* C6: get_relations raises NotImplementedError for every table name and
\* every database, executes no query before it, and returns no value.
C6_RelationsNotImplemented ==
    (pc = "done" /\ call.op = "get_relations") =>
        /\ result.kind = "raise"
        /\ result.exc = "NotImplementedError"
        /\ queries = <<>>

\* C6's case: relations asked of an existing table that has indexes.
C6_Witness ==
    /\ pc = "done"
    /\ call.op = "get_relations"
    /\ Len(IndexRows(call.table_name)) >= 1
    /\ result.kind = "raise"

\* The names of the catalog entries of type 'table' other than
\* 'sqlite_sequence'.
UserTables ==
    {db.master[i].name : i \in {i \in 1..Len(db.master) :
        db.master[i].type = "table" /\ db.master[i].name # sqlite_sequence}}

RECURSIVE LexBefore(_, _)
\* a is before b in lexicographic order: b goes on where a ends, or the
\* first characters decide, or they are equal and the rests decide.
LexBefore(a, b) ==
    IF b = <<>> THEN FALSE
    ELSE IF a = <<>> THEN TRUE
    ELSE IF Head(a) # Head(b) THEN Head(a) < Head(b)
    ELSE LexBefore(Tail(a), Tail(b))

\* C7: get_table_list returns exactly the names of the catalog entries of
\* type 'table' other than 'sqlite_sequence', each once, in ascending
\* lexicographic order; no other entry appears.
C7_TableList ==
    Returned("get_table_list") =>
        /\ result.kind = "return"
        /\ result.type = "list"
        /\ {result.value[i] : i \in 1..Len(result.value)} = UserTables
        /\ Len(result.value) = Cardinality(UserTables)
        /\ \A i, j \in 1..Len(result.value) :
               i < j => LexBefore(result.value[i], result.value[j])

\* C7's case: a catalog holding sqlite_sequence and an index, its tables
\* not in name order, listed as the two user tables in order.
C7_Witness ==
    /\ Returned("get_table_list")
    /\ \E i \in 1..Len(db.master) : db.master[i].name = sqlite_sequence
    /\ \E i \in 1..Len(db.master) : db.master[i].type = "index"
    /\ db.master[1].name = NameT
    /\ result.kind = "return"
    /\ result.value = <<NameUpperB, NameT>>

\* C8: get_table_description returns one descriptor per row of the column
\* metadata query, in the same order, each the 7-tuple (name, raw type,
\* None, None, None, None, nullable) with name and type copied from the row
\* and nullable true exactly when the row's notnull is falsy.
C8_TableDescription ==
    Returned("get_table_description") =>
        /\ result.kind = "return"
        /\ result.type = "list"
        /\ Len(result.value) = Len(ColumnRows(call.table_name))
        /\ \A i \in 1..Len(result.value) :
               result.value[i] =
                   <<ColumnRows(call.table_name)[i][2],
                     ColumnRows(call.table_name)[i][3],
                     None, None, None, None,
                     ColumnRows(call.table_name)[i][4] = 0>>

\* C8's case: a table of a NOT NULL column after a nullable one, described.
C8_Witness ==
    /\ Returned("get_table_description")
    /\ Len(ColumnRows(call.table_name)) = 2
    /\ ColumnRows(call.table_name)[1][4] = 0
    /\ ColumnRows(call.table_name)[2][4] = 1
    /\ result.kind = "return"
    /\ result.value[1][7] = TRUE
    /\ result.value[2][7] = FALSE

\* C9: if a query of get_table_list, get_table_description or get_indexes
\* fails, the operation ends with that same failure, executes no query
\* after the failed one (so no retry), and returns no result.
C9_QueryFailurePropagates ==
    (/\ pc = "done"
     /\ call.op \in {"get_table_list", "get_table_description", "get_indexes"}
     /\ fault.at > 0)
    => /\ result.kind = "raise"
       /\ result.exc = fault.exc
       /\ Len(queries) = fault.at

\* C9's case: the fourth query of get_indexes fails, after the third query
\* told it of a single-column unique index.
C9_Witness ==
    /\ pc = "done"
    /\ call.op = "get_indexes"
    /\ fault.at = 4
    /\ IsUniqueIndex(IndexRows(call.table_name)[1])
    /\ Covered(IndexRows(call.table_name)[1]) = <<ColumnRows(call.table_name)[1][2]>>
    /\ result.kind = "raise"
    /\ result.exc = "OperationalError"

\* The names of the non-unique indexes of table t.
NonUniqueNames(t) == {ix[2] : ix \in {ix \in Indexes(t) : ~IsUniqueIndex(ix)}}

\* C10: for any table and any indexes on it whose covered columns are
\* columns of the table, get_indexes returns a mapping whose keys are
\* exactly the table's column names, where primary_key is true iff the
\* column's pk value is non-zero and unique is true iff some unique index
\* covers exactly that one column; no non-unique index is queried for its
\* columns.
C10_IndexMapping ==
    (/\ Returned("get_indexes")
     /\ \A ix \in Indexes(call.table_name) :
            \A j \in 1..Len(Covered(ix)) :
                Covered(ix)[j] \in ColumnNames(call.table_name))
    => /\ ReturnedMapping(call.table_name)
       /\ \A c \in ColumnNames(call.table_name) :
              /\ result.value[c].primary_key = (PkValue(call.table_name, c) # 0)
              /\ result.value[c].unique =
                     (\E ix \in Indexes(call.table_name) :
                          IsUniqueIndex(ix) /\ Covered(ix) = <<c>>)
       /\ \A i \in 1..Len(queries) :
              ~(/\ queries[i].sql = PragmaIndexInfo
                /\ queries[i].arg \in NonUniqueNames(call.table_name))

\* C10's case: a table whose second key column has no index, with a unique
\* index on its first column and a non-unique index.
C10_Witness ==
    /\ Returned("get_indexes")
    /\ Len(ColumnRows(call.table_name)) = 2
    /\ ColumnRows(call.table_name)[2][6] = 2
    /\ NonUniqueNames(call.table_name) # {}
    /\ \E ix \in Indexes(call.table_name) :
          IsUniqueIndex(ix) /\ Covered(ix) = <<ColumnRows(call.table_name)[1][2]>>
    /\ ReturnedMapping(call.table_name)
    /\ result.value[ColumnRows(call.table_name)[2][2]].primary_key
    /\ ~result.value[ColumnRows(call.table_name)[2][2]].unique
    /\ result.value[ColumnRows(call.table_name)[1][2]].unique

====
